---- MODULE Spec2Model ----
(***************************************************************************)
(* Model of plugins/modules/o4n_ros_command.py: one invocation of main()   *)
(* driving a Ruggedcom ROS device over Telnet (telnetlib) or SSH (netmiko).*)
(*                                                                         *)
(* A text is a sequence of tokens; device text is kept character by        *)
(* character so that substring search and replacement are computed, while  *)
(* parameter values and message literals are single tokens.                *)
(***************************************************************************)
EXTENDS Integers, Sequences, FiniteSets, TLC

VARIABLES
    params,      \* module.params: host, protocol, port, user, password, commands
    pc,          \* position of main()
    conn,        \* the transport connection: "none", "open" or "closed"
    trace,       \* the calls made on the transport, in order, with what they returned
    idx,         \* index of the command the for loop is at
    npages,      \* pager pages the device has sent for the current command
    prompt,      \* bytes returned by the authentication-check read
    pending,     \* Telnet: bytes the device had sent when the final read returned
    page,        \* SSH: the page last returned by send_command_timing
    cmd_output,  \* SSH: the buffer of the current command
    output,      \* the accumulated output
    received,    \* SSH: for each command sent, the pages the device returned
    err,         \* the exception last raised by the transport
    stage,       \* the step at which the invocation ended
    result       \* what the module reported: exit_json, fail_json or a traceback

vars == <<params, pc, conn, trace, idx, npages, prompt, pending, page, cmd_output,
          output, received, err, stage, result>>

----------------------------------------------------------------------------
(* Bounds *)

\* Largest number of pages holding the pager marker that the device sends
\* for one command.
MaxPages == 2

----------------------------------------------------------------------------
(* Literals of the source *)

more_prompt == <<"-", "-", "M", "o", "r", "e", "-", "-", " ", "o", "r", " ", "(", "q", ")", "u", "i", "t">>

user_prompt == <<"E", "n", "t", "e", "r", " ", "U", "s", "e", "r", " ", "N", "a", "m", "e", ":", " ">>

user_literal == <<"E", "n", "t", "e", "r", " ", "U", "s", "e", "r", " ", "N", "a", "m", "e", ":">>

password_prompt == <<"P", "a", "s", "s", "w", "o", "r", "d", ":", " ">>

cli_prompt == <<">", " ", " ", " ", " ">>

finish_keyword == <<" ", " ", " ", " ", "\n">>

ctrl_s == <<"\\x13">>

cls == <<"c", "l", "s", "\n">>

newline == <<"\n">>

ssh_cli_entry == <<"\n", " ", "\\x13">>

----------------------------------------------------------------------------
(* Text operations *)

\* Python's `pat in text`.
Contains(text, pat) ==
    \E i \in 0..(Len(text) - Len(pat)) : SubSeq(text, i + 1, i + Len(pat)) = pat

\* Python's text.find(pat): the first position (from 0) at which pat
\* occurs, or -1.
Find(text, pat) ==
    IF Contains(text, pat)
    THEN CHOOSE i \in 0..(Len(text) - Len(pat)) :
           /\ SubSeq(text, i + 1, i + Len(pat)) = pat
           /\ \A j \in 0..(i - 1) : SubSeq(text, j + 1, j + Len(pat)) # pat
    ELSE -1

\* Python's text.replace(pat, ""): one left-to-right pass that drops the
\* first occurrence and goes on after it; the text that the removals join
\* is not scanned again.
RECURSIVE Replace(_, _)
Replace(text, pat) ==
    LET at == Find(text, pat) IN
    IF at < 0 \/ Len(pat) = 0 THEN text
    ELSE SubSeq(text, 1, at) \o Replace(SubSeq(text, at + Len(pat) + 1, Len(text)), pat)

\* A byte outside the ASCII range, as a device may send it.
NonAscii == {"\\xe9"}

\* bytes.decode('ascii') raises UnicodeDecodeError on a byte above 0x7f and
\* otherwise returns the same characters.
DecodeOk(bytes) == \A i \in 1..Len(bytes) : bytes[i] \notin NonAscii

\* The value telnetlib's read_until(match) returns for the bytes the device
\* has sent: everything up to and including the first match, or, when the
\* match does not come within the timeout, everything received.
ReadUntil(bytes, match) ==
    IF Contains(bytes, match)
    THEN SubSeq(bytes, 1, Find(bytes, match) + Len(match))
    ELSE bytes

----------------------------------------------------------------------------
(* Parameters of the invocation *)

DefaultPort == 22

Hosts == {"10.0.0.1"}

Users == {"admin"}

Passwords == {"x", "y"}

cmd_sql == <<"s", "q", "l", " ", "s", "e", "l", "e", "c", "t", " ", "S", "e", "r", "i", "a", "l", " ", "N", "u", "m", "b", "e", "r", " ", "f", "r", "o", "m", " ", "p", "r", "o", "d", "u", "c", "t", "i", "n", "f", "o">>

cmd_version == <<"v", "e", "r", "s", "i", "o", "n">>

\* The command batches of the model: a single command and a batch of two.
Batches == {<<cmd_sql>>, <<cmd_sql, cmd_version>>}

Params ==
    [host : Hosts, protocol : {"ssh", "telnet"}, port : {DefaultPort},
     user : Users, password : Passwords, commands : Batches]

----------------------------------------------------------------------------
(* What the device and the transport libraries may answer *)

answer == <<"R", "U", "M", "E", "9", "2", "4", "0", "5", "8", "3", "8", "1", "\n", "1", " ", "r", "e", "c", "o", "r", "d", "s", " ", "s", "e", "l", "e", "c", "t", "e", "d", "\n">>

\* A page that ends at the pager.
page_more == <<"A", "\n">> \o more_prompt

\* A page in which a pager marker sits inside the characters of another.
page_nested == SubSeq(more_prompt, 1, 15) \o more_prompt \o SubSeq(more_prompt, 16, 18)

\* Two pages whose junction spells the marker.
page_split_head == more_prompt \o SubSeq(more_prompt, 1, 8)

page_split_tail == SubSeq(more_prompt, 9, 18) \o <<"B", "\n">>

Pages == {answer, page_more, page_nested, page_split_head, page_split_tail}

\* Exceptions are records of their class and of str(err).
Exc(type, text) == [type |-> type, text |-> text]

NoExc == Exc("", "")

TelnetConnectErrors == {Exc("socket.timeout", "timed out")}

\* read_until, read_very_eager and write raise when the peer has closed.
TelnetEOF == Exc("EOFError", "telnet connection closed")

TelnetWriteError == Exc("BrokenPipeError", "[Errno 32] Broken pipe")

SshConnectErrors ==
    {Exc("NetmikoTimeoutException", "TCP connection to device failed."),
     Exc("NetmikoAuthenticationException", "Authentication to device failed.")}

SshReadErrors ==
    {Exc("NetmikoTimeoutException", "Timed-out reading channel, data not available."),
     Exc("OSError", "Socket is closed")}

\* Exception classes that are subclasses of Exception (SystemExit is not).
IsException(e) == e.type # "" /\ e.type # "SystemExit"

\* Bytes the device may have sent by the time each Telnet read returns.
LoginBytes == {user_prompt, <<>>}

PasswordBytes == {password_prompt, <<>>}

AuthBytes ==
    {cli_prompt, <<"\n">> \o user_prompt, user_prompt \o <<"\\xe9">>,
     <<"\\xe9">> \o cli_prompt, <<>>}

FinalBytes ==
    {answer \o cli_prompt, answer, page_more, <<"\\xe9">> \o cli_prompt,
     answer \o cli_prompt \o <<"B", "\n">> \o cli_prompt}

----------------------------------------------------------------------------
(* Reports *)

\* Tag with the login-prompt step reported under the connect step's literal.
Tag_merged(stg) ==
    CASE stg \in {"tn_connect", "tn_login"} -> "O4N_ERROR: Telnet Connection Exception (a)\nConnection settings: "
      [] stg = "tn_password" -> "O4N_ERROR: Telnet Connection Exception (c)\nConnection settings: "
      [] stg = "tn_cli"      -> "O4N_ERROR: Telnet Connection Exception (d)\nConnection settings: "
      [] stg = "tn_auth"     -> "\n'O4N_ERROR: Telnet Authentication Exception.\n\nAuthentication to device failed.\n\nCommon causes of this problem are:\n\n1. Invalid username and password\n\n2. Connecting to the wrong device\n\nConnection settings:\n"
      [] stg = "tn_command"  -> "O4N_ERROR: Telnet Command Exception \n"
      [] stg = "ssh_connect" -> "O4N_ERROR: SSH Connection Exception\n"
      [] stg = "ssh_cli"     -> "O4N_ERROR: CLI Prompt Exception\n"
      [] stg = "ssh_send"    -> "O4N_ERROR: Send Command Exception\n"
      [] stg = "ssh_page"    -> "O4N_ERROR: Pagination Exception\n"

\* The literal that opens the message of each failing step.
Tag(stg) ==
    CASE stg = "tn_connect"  -> "O4N_ERROR: Telnet Connection Exception (a)\nConnection settings: "
      [] stg = "tn_login"    -> "O4N_ERROR: Telnet Connection Exception (b)\nConnection settings: "
      [] stg = "tn_password" -> "O4N_ERROR: Telnet Connection Exception (c)\nConnection settings: "
      [] stg = "tn_cli"      -> "O4N_ERROR: Telnet Connection Exception (d)\nConnection settings: "
      [] stg = "tn_auth"     -> "\n'O4N_ERROR: Telnet Authentication Exception.\n\nAuthentication to device failed.\n\nCommon causes of this problem are:\n\n1. Invalid username and password\n\n2. Connecting to the wrong device\n\nConnection settings:\n"
      [] stg = "tn_command"  -> "O4N_ERROR: Telnet Command Exception \n"
      [] stg = "ssh_connect" -> "O4N_ERROR: SSH Connection Exception\n"
      [] stg = "ssh_cli"     -> "O4N_ERROR: CLI Prompt Exception\n"
      [] stg = "ssh_send"    -> "O4N_ERROR: Send Command Exception\n"
      [] stg = "ssh_page"    -> "O4N_ERROR: Pagination Exception\n"

\* ret_msg with the whole of the connection settings, password included.
RetMsg_leak(stg, p, e) ==
    <<Tag(stg), p.user, ":", p.password, "@", p.host, ":", ToString(p.port), "\n", e.text>>

\* ret_msg as each handler builds it from the parameters p and the exception e.
RetMsg(stg, p, e) ==
    IF stg \in {"tn_connect", "tn_login", "tn_password", "tn_cli"}
    THEN <<Tag(stg), p.user, "@", p.host, ":", ToString(p.port), "\n", e.text>>
    ELSE IF stg = "tn_auth"
         THEN <<Tag(stg), p.user, "@", p.host, ":", ToString(p.port)>>
         ELSE <<Tag(stg), e.text>>

NoResult == [kind |-> "none"]

\* fail_json that hands back the output captured so far.
fail_json_with_content(msg) ==
    [kind |-> "fail_json", msg |-> msg, failed |-> TRUE, changed |-> FALSE, content |-> output]

fail_json(msg) == [kind |-> "fail_json", msg |-> msg, failed |-> TRUE, changed |-> FALSE]

exit_json(content) == [kind |-> "exit_json", failed |-> FALSE, content |-> content]

\* An exception no handler catches ends the process with a traceback.
Traceback(e) == [kind |-> "traceback", exc |-> e.type]

\* One call on the transport: what was called, with what, and how it ended.
Call(op, arg, ret, e) == [op |-> op, arg |-> arg, ret |-> ret, exc |-> e.type]

\* module.fail_json(msg=ret_msg, failed=True, changed=False): reports and
\* raises SystemExit, so nothing of main() runs after it.
Fail(stg, e) ==
    /\ result' = fail_json(RetMsg(stg, params, e))
    /\ stage' = stg
    /\ err' = e
    /\ pc' = "done"

\* An exception raised outside every try block.
Uncaught(stg, e) ==
    /\ result' = Traceback(e)
    /\ stage' = stg
    /\ err' = e
    /\ pc' = "done"

----------------------------------------------------------------------------
(* The state after the parameters are read *)

Init ==
    /\ params \in Params
    /\ pc = "start"
    /\ conn = "none"
    /\ trace = <<>>
    /\ idx = 1
    /\ npages = 0
    /\ prompt = <<>>
    /\ pending = <<>>
    /\ page = <<>>
    /\ cmd_output = <<>>
    /\ output = <<>>
    /\ received = <<>>
    /\ err = NoExc
    /\ stage = ""
    /\ result = NoResult

----------------------------------------------------------------------------
(* Telnet *)

\* tn_client = telnetlib.Telnet(host, port, timeout)
TnConnect ==
    /\ pc = "start"
    /\ params.protocol = "telnet"
    /\ \/ /\ conn' = "open"
          /\ trace' = Append(trace, Call("connect", <<>>, <<>>, NoExc))
          /\ pc' = "tn_read_user"
          /\ UNCHANGED <<err, stage, result>>
       \/ \E e \in TelnetConnectErrors :
            /\ trace' = Append(trace, Call("connect", <<>>, <<>>, e))
            /\ Fail("tn_connect", e)
            /\ UNCHANGED conn
    /\ UNCHANGED <<params, pending, idx, npages, prompt, page, cmd_output, output, received>>

\* A read_until inside try/except Exception whose value is discarded.
TnReadUntil(match, bytes, stg, next) ==
    /\ \/ \E b \in bytes :
            /\ trace' = Append(trace, Call("read_until", match, ReadUntil(b, match), NoExc))
            /\ pc' = next
            /\ UNCHANGED <<err, stage, result>>
       \/ /\ trace' = Append(trace, Call("read_until", match, <<>>, TelnetEOF))
          /\ Fail(stg, TelnetEOF)
    /\ UNCHANGED <<params, pending, conn, idx, npages, prompt, page, cmd_output, output, received>>

\* A write outside every try block.
TnWrite(data, stg, next) ==
    /\ \/ /\ trace' = Append(trace, Call("write", data, <<>>, NoExc))
          /\ pc' = next
          /\ UNCHANGED <<err, stage, result>>
       \/ /\ trace' = Append(trace, Call("write", data, <<>>, TelnetWriteError))
          /\ Uncaught(stg, TelnetWriteError)
    /\ UNCHANGED <<params, pending, conn, idx, npages, prompt, page, cmd_output, output, received>>

\* tn_client.read_until(b'Enter User Name: ', telnet_timeout)
TnReadUserPrompt ==
    /\ pc = "tn_read_user"
    /\ TnReadUntil(user_prompt, LoginBytes, "tn_login", "tn_write_user")

\* tn_client.write(user.encode() + b'\n')
TnWriteUser ==
    /\ pc = "tn_write_user"
    /\ TnWrite(<<params.user, "\n">>, "tn_write_user", "tn_read_password")

\* tn_client.read_until(b'Password: ', telnet_timeout)
TnReadPasswordPrompt ==
    /\ pc = "tn_read_password"
    /\ TnReadUntil(password_prompt, PasswordBytes, "tn_password", "tn_write_password")

\* tn_client.write(password.encode() + b'\n')
TnWritePassword ==
    /\ pc = "tn_write_password"
    /\ TnWrite(<<params.password, "\n">>, "tn_write_password", "tn_ctrl")

\* tn_client.write(b'\x13')
TnWriteCtrl ==
    /\ pc = "tn_ctrl"
    /\ TnWrite(ctrl_s, "tn_ctrl", "tn_cls")

\* TnWriteCls that goes on to the bare newline without the drain.
TnWriteCls_nodrain ==
    /\ pc = "tn_cls"
    /\ TnWrite(cls, "tn_cls", "tn_newline")

\* tn_client.write(b'cls' + b'\n'); time.sleep(1)
TnWriteCls ==
    /\ pc = "tn_cls"
    /\ TnWrite(cls, "tn_cls", "tn_drain")

\* tn_client.read_very_eager(): never blocks, raises when the peer has closed.
TnDrain ==
    /\ pc = "tn_drain"
    /\ \/ /\ trace' = Append(trace, Call("read_very_eager", <<>>, <<>>, NoExc))
          /\ pc' = "tn_newline"
          /\ UNCHANGED <<err, stage, result>>
       \/ /\ trace' = Append(trace, Call("read_very_eager", <<>>, <<>>, TelnetEOF))
          /\ Fail("tn_cli", TelnetEOF)
    /\ UNCHANGED <<params, pending, conn, idx, npages, prompt, page, cmd_output, output, received>>

\* tn_client.write(b'\n')
TnWriteNewline ==
    /\ pc = "tn_newline"
    /\ TnWrite(newline, "tn_newline", "tn_check_auth")

\* prompt = tn_client.read_until(b'>    ', telnet_timeout), outside every try
\* block, then the check of 'Enter User Name:' in prompt.decode('ascii').
TnCheckAuth ==
    /\ pc = "tn_check_auth"
    /\ \/ \E b \in AuthBytes :
            LET r == ReadUntil(b, cli_prompt) IN
            /\ trace' = Append(trace, Call("read_until", cli_prompt, r, NoExc))
            /\ prompt' = r
            /\ IF ~DecodeOk(r)
               THEN Uncaught("tn_check_auth", Exc("UnicodeDecodeError", "'ascii' codec can't decode byte"))
               ELSE IF Contains(r, user_literal)
                    THEN Fail("tn_auth", NoExc)
                    ELSE /\ pc' = "tn_commands"
                         /\ UNCHANGED <<err, stage, result>>
       \/ /\ trace' = Append(trace, Call("read_until", cli_prompt, <<>>, TelnetEOF))
          /\ Uncaught("tn_check_auth", TelnetEOF)
          /\ UNCHANGED prompt
    /\ UNCHANGED <<params, pending, conn, idx, npages, page, cmd_output, output, received>>

\* The batch walked from its last command to its first.
CommandAt_reversed(i) == params.commands[Len(params.commands) + 1 - i]

\* for command in commands: the command of the i-th turn of the loop.
CommandAt(i) == params.commands[i]

\* for command in commands: time.sleep(0.2); tn_client.write(command.encode() + b'\n')
TnWriteCommand ==
    /\ pc = "tn_commands"
    /\ idx <= Len(params.commands)
    /\ LET data == CommandAt(idx) \o newline IN
       \/ /\ trace' = Append(trace, Call("write", data, <<>>, NoExc))
          /\ idx' = idx + 1
          /\ pc' = IF idx = Len(params.commands) THEN "tn_finish" ELSE "tn_commands"
          /\ UNCHANGED <<err, stage, result>>
       \/ /\ trace' = Append(trace, Call("write", data, <<>>, TelnetWriteError))
          /\ Uncaught("tn_commands", TelnetWriteError)
          /\ UNCHANGED idx
    /\ UNCHANGED <<params, pending, conn, npages, prompt, page, cmd_output, output, received>>

\* tn_client.write(b'    ' + b'\n')
TnWriteFinish ==
    /\ pc = "tn_finish"
    /\ TnWrite(finish_keyword, "tn_finish", "tn_read_output")

\* output = tn_client.read_until(b'>    ', telnet_timeout) inside try/except,
\* then output.decode('ascii') outside it.
TnReadOutput ==
    /\ pc = "tn_read_output"
    /\ \/ \E b \in FinalBytes :
            LET r == ReadUntil(b, cli_prompt) IN
            /\ trace' = Append(trace, Call("read_until", cli_prompt, r, NoExc))
            /\ pending' = b
            /\ IF ~DecodeOk(r)
               THEN /\ Uncaught("tn_read_output", Exc("UnicodeDecodeError", "'ascii' codec can't decode byte"))
                    /\ UNCHANGED output
               ELSE /\ output' = r
                    /\ pc' = "tn_close"
                    /\ UNCHANGED <<err, stage, result>>
       \/ /\ trace' = Append(trace, Call("read_until", cli_prompt, <<>>, TelnetEOF))
          /\ Fail("tn_command", TelnetEOF)
          /\ UNCHANGED <<output, pending>>
    /\ UNCHANGED <<params, conn, idx, npages, prompt, page, cmd_output, received>>

\* tn_client.close(); module_success = True; module.exit_json(failed=False, content=output)
TnClose ==
    /\ pc = "tn_close"
    /\ conn' = "closed"
    /\ trace' = Append(trace, Call("close", <<>>, <<>>, NoExc))
    /\ result' = exit_json(output)
    /\ stage' = "tn_exit"
    /\ pc' = "done"
    /\ UNCHANGED <<params, pending, idx, npages, prompt, page, cmd_output, output, received, err>>

----------------------------------------------------------------------------
(* SSH *)

\* cmd_output = '' in place of the echoed command line.
cmd_echo_bare(command) == <<>>

\* cmd_output = '>' + command + '\n'
cmd_echo(command) == <<">">> \o command \o newline

\* cmd_output.replace(more_prompt, "")
strip(text) == Replace(text, more_prompt)

\* output = ... in place of output += ...
Accumulate_overwrite(out, buf) == strip(buf)

\* output += cmd_output.replace(more_prompt, "")
Accumulate(out, buf) == out \o strip(buf)

\* cmd_output += page, done twice over.
AppendPage_twice(buf, pg) == buf \o pg \o pg

\* cmd_output += page
AppendPage(buf, pg) == buf \o pg

\* The pages the device may return next for the current command: the pager
\* shows at most MaxPages times per command.
NextPages(n) == {p \in Pages : Contains(p, more_prompt) => n < MaxPages}

\* SshConnect whose handler reports the failure and goes on to the next step.
SshConnect_noreturn ==
    /\ pc = "start"
    /\ params.protocol = "ssh"
    /\ \/ /\ conn' = "open"
          /\ trace' = Append(trace, Call("connect", <<>>, <<>>, NoExc))
          /\ pc' = "ssh_enter_cli"
          /\ UNCHANGED <<err, stage, result>>
       \/ \E e \in SshConnectErrors :
            /\ trace' = Append(trace, Call("connect", <<>>, <<>>, e))
            /\ result' = fail_json(RetMsg("ssh_connect", params, e))
            /\ stage' = "ssh_connect"
            /\ err' = e
            /\ pc' = "ssh_enter_cli"
            /\ UNCHANGED conn
    /\ UNCHANGED <<params, pending, idx, npages, prompt, page, cmd_output, output, received>>

\* ssh_client = ConnectHandler(host, device_type='autodetect', username=user,
\*                             port=port, password=password, ...)
SshConnect ==
    /\ pc = "start"
    /\ params.protocol = "ssh"
    /\ \/ /\ conn' = "open"
          /\ trace' = Append(trace, Call("connect", <<>>, <<>>, NoExc))
          /\ pc' = "ssh_enter_cli"
          /\ UNCHANGED <<err, stage, result>>
       \/ \E e \in SshConnectErrors :
            /\ trace' = Append(trace, Call("connect", <<>>, <<>>, e))
            /\ Fail("ssh_connect", e)
            /\ UNCHANGED conn
    /\ UNCHANGED <<params, pending, idx, npages, prompt, page, cmd_output, output, received>>

\* ssh_client.send_command_timing('\n \x13', last_read=1); output = ""
SshEnterCli ==
    /\ pc = "ssh_enter_cli"
    /\ \/ /\ trace' = Append(trace, Call("send_command_timing", ssh_cli_entry, <<>>, NoExc))
          /\ output' = <<>>
          /\ pc' = "ssh_command"
          /\ UNCHANGED <<err, stage, result>>
       \/ \E e \in SshReadErrors :
            /\ trace' = Append(trace, Call("send_command_timing", ssh_cli_entry, <<>>, e))
            /\ Fail("ssh_cli", e)
            /\ UNCHANGED output
    /\ UNCHANGED <<params, pending, conn, idx, npages, prompt, page, cmd_output, received>>

\* The head of the for loop: cmd_output = '>' + command + '\n' and
\* page = ssh_client.send_command_timing(command, last_read=1).
SshSendCommand ==
    /\ pc = "ssh_command"
    /\ idx <= Len(params.commands)
    /\ LET command == CommandAt(idx) IN
       /\ cmd_output' = cmd_echo(command)
       /\ \/ \E p \in NextPages(0) :
               /\ trace' = Append(trace, Call("send_command_timing", command, p, NoExc))
               /\ page' = p
               /\ npages' = IF Contains(p, more_prompt) THEN 1 ELSE 0
               /\ received' = Append(received, <<p>>)
               /\ pc' = "ssh_page"
               /\ UNCHANGED <<err, stage, result>>
          \/ \E e \in SshReadErrors :
               /\ trace' = Append(trace, Call("send_command_timing", command, <<>>, e))
               /\ Fail("ssh_send", e)
               /\ UNCHANGED <<page, npages, received>>
    /\ UNCHANGED <<params, pending, conn, idx, prompt, output>>

\* One turn of the while loop: cmd_output += page; with the pager marker in
\* page, page = ssh_client.send_command_timing('\n', last_read=1); without
\* it, break and output += cmd_output.replace(more_prompt, "").
\* The inner handler, except Exception, takes every exception of the send,
\* NetmikoTimeoutException included, before the outer handler can.
SshPage ==
    /\ pc = "ssh_page"
    /\ cmd_output' = AppendPage(cmd_output, page)
    /\ IF Contains(page, more_prompt)
       THEN /\ \/ \E p \in NextPages(npages) :
                    /\ trace' = Append(trace, Call("send_command_timing", newline, p, NoExc))
                    /\ page' = p
                    /\ npages' = IF Contains(p, more_prompt) THEN npages + 1 ELSE npages
                    /\ received' = [received EXCEPT ![Len(received)] = Append(@, p)]
                    /\ pc' = "ssh_page"
                    /\ UNCHANGED <<err, stage, result, idx, output>>
               \/ \E e \in SshReadErrors :
                    /\ trace' = Append(trace, Call("send_command_timing", newline, <<>>, e))
                    /\ IF IsException(e)
                       THEN /\ Fail("ssh_page", e)
                            /\ UNCHANGED <<idx, output>>
                       ELSE /\ output' = Accumulate(output, cmd_output')
                            /\ idx' = idx + 1
                            /\ pc' = IF idx = Len(params.commands) THEN "ssh_disconnect" ELSE "ssh_command"
                            /\ UNCHANGED <<err, stage, result>>
                    /\ UNCHANGED <<page, npages, received>>
       ELSE /\ output' = Accumulate(output, cmd_output')
            /\ idx' = idx + 1
            /\ pc' = IF idx = Len(params.commands) THEN "ssh_disconnect" ELSE "ssh_command"
            /\ UNCHANGED <<trace, page, npages, received, err, stage, result>>
    /\ UNCHANGED <<params, pending, conn, prompt>>

\* ssh_client.disconnect(); module_success = True;
\* module.exit_json(failed=False, content=output)
SshDisconnect ==
    /\ pc = "ssh_disconnect"
    /\ conn' = "closed"
    /\ trace' = Append(trace, Call("disconnect", <<>>, <<>>, NoExc))
    /\ result' = exit_json(output)
    /\ stage' = "ssh_exit"
    /\ pc' = "done"
    /\ UNCHANGED <<params, pending, idx, npages, prompt, page, cmd_output, output, received, err>>

----------------------------------------------------------------------------

Next ==
    \/ TnConnect
    \/ TnReadUserPrompt
    \/ TnWriteUser
    \/ TnReadPasswordPrompt
    \/ TnWritePassword
    \/ TnWriteCtrl
    \/ TnWriteCls
    \/ TnDrain
    \/ TnWriteNewline
    \/ TnCheckAuth
    \/ TnWriteCommand
    \/ TnWriteFinish
    \/ TnReadOutput
    \/ TnClose
    \/ SshConnect
    \/ SshEnterCli
    \/ SshSendCommand
    \/ SshPage
    \/ SshDisconnect

Spec == Init /\ [][Next]_vars

\* The pages that make the while loop ask for another page.
MarkerPages == {p \in Pages : Contains(p, more_prompt)}

\* A turn of the while loop against a device that, past its MaxPages-th pager
\* page, answers the continuation with one more pager page. The loop has no
\* exit but a page without the marker or an exception, so the turn leaves
\* main() where it was. The histories (trace, received, cmd_output) keep
\* the first MaxPages pages only; past them the control state alone is kept.
SshPageWedged ==
    /\ pc = "ssh_page"
    /\ Contains(page, more_prompt)
    /\ npages >= MaxPages
    /\ \E p \in MarkerPages \ {page} : page' = p
    /\ UNCHANGED <<params, pc, conn, trace, idx, npages, prompt, pending, cmd_output,
                   output, received, err, stage, result>>

NextWedged == Next \/ SshPageWedged

\* main() runs in one thread and always takes its next step; what the device
\* answers is not constrained.
SpecWedged == Init /\ [][NextWedged]_vars /\ WF_vars(NextWedged)

----------------------------------------------------------------------------
(* Properties *)

Succeeded == result.kind = "exit_json"

Failed == result.kind = "fail_json"

IsSsh == params.protocol = "ssh"

IsTelnet == params.protocol = "telnet"

\* Number of positions of text at which pat occurs.
Occurrences(text, pat) ==
    Cardinality({i \in 0..(Len(text) - Len(pat)) : SubSeq(text, i + 1, i + Len(pat)) = pat})

\* The pages of one command, joined in the order they came.
RECURSIVE JoinPages(_)
JoinPages(pages) ==
    IF pages = <<>> THEN <<>> ELSE Head(pages) \o JoinPages(Tail(pages))

\* The concatenation of section[1], ..., section[n].
RECURSIVE ConcatSections(_, _)
ConcatSections(section, n) ==
    IF n = 0 THEN <<>> ELSE ConcatSections(section, n - 1) \o section[n]

\* What the device returned for each command, pager marker removed.
DeviceSections ==
    [i \in 1..Len(received) |-> Replace(JoinPages(received[i]), more_prompt)]

\* The same with the line '>' + command + newline put in front before the
\* marker is removed.
EchoedSections ==
    [i \in 1..Len(received) |->
        Replace(<<">">> \o params.commands[i] \o <<"\n">> \o JoinPages(received[i]), more_prompt)]

C2_StrippedHasNoMarker ==
    IsSsh => Occurrences(output, more_prompt) = 0

\* Some command of the batch was handed to the transport.
CommandWritten ==
    \E k \in 1..Len(trace) : \E i \in 1..Len(params.commands) :
        \/ trace[k].op = "write" /\ trace[k].arg = params.commands[i] \o <<"\n">>
        \/ trace[k].op = "send_command_timing" /\ trace[k].arg = params.commands[i]

\* data was handed to the Telnet transport.
Written(data) ==
    \E k \in 1..Len(trace) : trace[k].op = "write" /\ trace[k].arg = data

\* A read for the literal match ended without it.
PromptMissed(match) ==
    \E k \in 1..Len(trace) :
        /\ trace[k].op = "read_until"
        /\ trace[k].arg = match
        /\ ~Contains(trace[k].ret, match)

\* The read of a command's first page or of a continuation page timed out.
CommandReadTimedOut ==
    \E k \in 1..Len(trace) :
        /\ trace[k].op = "send_command_timing"
        /\ trace[k].arg # ssh_cli_entry
        /\ trace[k].exc = "NetmikoTimeoutException"

\* C3 as stated: on Telnet, when the bytes read for the authentication check
\* hold 'Enter User Name:', the invocation fails with the authentication
\* error, returns no output and writes no command of the batch.
C3_PromptLiteralMeansAuthError ==
    (IsTelnet /\ Contains(prompt, user_literal)) =>
        /\ Failed
        /\ result.msg[1] = Tag("tn_auth")
        /\ "content" \notin DOMAIN result
        /\ ~CommandWritten

\* C4 as stated: no terminal state, success or failure, has the transport
\* connection still open.
C4_ClosedOnEveryExit ==
    pc = "done" => conn # "open"

\* C5 as stated: on SSH, a timed-out read for a command does not abort the
\* batch: the invocation ends in success and every command was sent.
C5_TimeoutDoesNotAbort ==
    (IsSsh /\ pc = "done" /\ CommandReadTimedOut) =>
        /\ Succeeded
        /\ \A i \in 1..Len(params.commands) :
             \E k \in 1..Len(trace) :
                trace[k].op = "send_command_timing" /\ trace[k].arg = params.commands[i]

\* C6 as stated: on Telnet, when the username prompt (the password prompt)
\* does not come, the username (the password) is never written and the
\* invocation ends in the login-prompt (password-prompt) stage error.
C6_MissingPromptStopsLogin ==
    IsTelnet =>
        /\ PromptMissed(user_prompt) =>
             /\ ~Written(<<params.user, "\n">>)
             /\ pc = "done" => (Failed /\ result.msg[1] = Tag("tn_login"))
        /\ PromptMissed(password_prompt) =>
             /\ ~Written(<<params.password, "\n">>)
             /\ pc = "done" => (Failed /\ result.msg[1] = Tag("tn_password"))

\* The steps whose failure the reports name as fatal stages: connect, the
\* login steps, the CLI entry and the authentication check.
FatalStages ==
    {"tn_connect", "tn_login", "tn_password", "tn_cli", "tn_auth", "ssh_connect", "ssh_cli"}

TelnetStages == {"tn_connect", "tn_login", "tn_password", "tn_cli", "tn_auth", "tn_command"}

\* The last call on the transport is the one that failed: it raised, or it is
\* the authentication-check read.
LastCallIsFailingStep ==
    /\ trace # <<>>
    /\ LET last == trace[Len(trace)] IN
         \/ last.exc # ""
         \/ stage = "tn_auth" /\ last.op = "read_until" /\ last.arg = cli_prompt

C8_MessageIndependentOfPassword ==
    Failed =>
        /\ \A pw \in Passwords :
             result.msg = RetMsg(stage, [params EXCEPT !.password = pw], err)
        /\ \A k \in 1..Len(result.msg) : result.msg[k] # params.password

\* C8 witness: a Telnet failure reported after the password was written.
C8_Witness ==
    /\ Failed
    /\ IsTelnet
    /\ stage = "tn_auth"
    /\ Written(<<params.password, "\n">>)

\* The tag under which a failed connection attempt is reported.
ConnectTag == Tag(IF IsSsh THEN "ssh_connect" ELSE "tn_connect")

\* The device or the session-establishment call turned the credentials down.
CredentialsRejected ==
    \/ IsSsh /\ err.type = "NetmikoAuthenticationException"
    \/ IsTelnet /\ stage = "tn_auth"

\* C9 as stated: on both protocols a rejection of the credentials is reported
\* under a tag other than the one of a failed connection, and each Telnet
\* stage has a tag of its own.
C9_TagTellsRejectionFromUnreachable ==
    Failed =>
        /\ CredentialsRejected => result.msg[1] # ConnectTag
        /\ IsTelnet => \A s \in TelnetStages \ {stage} : Tag(s) # result.msg[1]

\* C9 amended: on Telnet a rejection of the credentials is reported under a
\* tag other than the one of a failed connection and each Telnet stage has a
\* tag of its own; on SSH a rejection of the credentials is reported under
\* the tag of a failed connection, followed by the transport's error text.
C9_TagPerTelnetStage ==
    Failed =>
        /\ IsTelnet => \A s \in TelnetStages \ {stage} : Tag(s) # result.msg[1]
        /\ (IsTelnet /\ CredentialsRejected) => result.msg[1] # ConnectTag
        /\ (IsSsh /\ CredentialsRejected) =>
             /\ result.msg[1] = ConnectTag
             /\ result.msg[2] = err.text

\* C9 witness: the SSH session-establishment call turned the credentials down.
C9_Witness ==
    /\ Failed
    /\ IsSsh
    /\ CredentialsRejected

\* C10: after a failed connection attempt the invocation has ended in the
\* connect-stage failure, the attempt is the only call made on the transport
\* and no connection exists.
C10_ConnectFailure ==
    (trace # <<>> /\ trace[1].op = "connect" /\ trace[1].exc # "") =>
        /\ pc = "done"
        /\ Failed
        /\ result.msg[1] = ConnectTag
        /\ Len(trace) = 1
        /\ conn = "none"

\* C10 witness: the Telnet connection attempt failed.
C10_Witness ==
    /\ IsTelnet
    /\ pc = "done"
    /\ trace # <<>>
    /\ trace[1].op = "connect"
    /\ trace[1].exc = "socket.timeout"

\* The calls of the Telnet negotiation, in the order of the source.
TelnetNegotiation ==
    << <<"connect", <<>> >>,
       <<"read_until", user_prompt>>,
       <<"write", <<params.user, "\n">> >>,
       <<"read_until", password_prompt>>,
       <<"write", <<params.password, "\n">> >>,
       <<"write", <<"\\x13">> >>,
       <<"write", <<"c", "l", "s", "\n">> >>,
       <<"read_very_eager", <<>> >>,
       <<"write", <<"\n">> >>,
       <<"read_until", cli_prompt>> >>

\* Call k on the Telnet transport writes a command of the batch.
IsCommandWrite(k) ==
    /\ trace[k].op = "write"
    /\ \E i \in 1..Len(params.commands) : trace[k].arg = params.commands[i] \o <<"\n">>

\* C11: the calls a Telnet invocation makes on the transport are, one after
\* the other, the steps of the negotiation in their order, each made only
\* after the one before it returned, and a command of the batch is written
\* only after the authentication-check read returned decodable text without
\* the username-prompt literal.
C11_TelnetNegotiationOrder ==
    IsTelnet =>
        /\ \A k \in 1..Len(trace) :
             k <= Len(TelnetNegotiation) =>
                /\ <<trace[k].op, trace[k].arg>> = TelnetNegotiation[k]
                /\ k > 1 => trace[k - 1].exc = ""
        /\ \A k \in 1..Len(trace) :
             IsCommandWrite(k) =>
                /\ k > Len(TelnetNegotiation)
                /\ trace[Len(TelnetNegotiation)].exc = ""
                /\ DecodeOk(trace[Len(TelnetNegotiation)].ret)
                /\ ~Contains(trace[Len(TelnetNegotiation)].ret, user_literal)

\* C11 witness: a Telnet invocation that went through the negotiation and
\* wrote its first command.
C11_Witness ==
    /\ IsTelnet
    /\ Len(trace) > Len(TelnetNegotiation)
    /\ IsCommandWrite(Len(TelnetNegotiation) + 1)

\* Call k on the SSH transport returned a page of a command of the batch.
IsPageRead(k) ==
    /\ trace[k].op = "send_command_timing"
    /\ trace[k].arg # ssh_cli_entry
    /\ trace[k].exc = ""

\* Call k on the SSH transport is a bare-newline continuation.
IsContinuation(k) ==
    /\ trace[k].op = "send_command_timing"
    /\ trace[k].arg = <<"\n">>

\* The call made after each page is a continuation exactly when that page
\* holds the pager marker.
ContinuationIffMarker ==
    \A k \in 1..(Len(trace) - 1) :
        IsPageRead(k) => (IsContinuation(k + 1) <=> Contains(trace[k].ret, more_prompt))

\* The loop of the current command has ended.
LoopEnds == pc = "ssh_page" /\ idx' = idx + 1

IsSshCommandSend(c) ==
    /\ c.op = "send_command_timing"
    /\ c.arg # ssh_cli_entry
    /\ c.arg # <<"\n">>

\* What the calls of a sequence were made with.
Args(calls) == [k \in 1..Len(calls) |-> calls[k].arg]

\* The calls a Telnet invocation makes after the negotiation, in order: the
\* commands, the end-of-batch sentinel, the final read, the close.
TelnetBatchCalls ==
    LET n == Len(params.commands) IN
    [k \in 1..(n + 3) |->
        IF k <= n THEN <<"write", params.commands[k] \o <<"\n">> >>
        ELSE IF k = n + 1 THEN <<"write", <<" ", " ", " ", " ", "\n">> >>
        ELSE IF k = n + 2 THEN <<"read_until", cli_prompt>>
        ELSE <<"close", <<>> >>]

\* C13: on SSH the commands sent are the first commands of the batch, in
\* batch order and each once, a command other than the first is sent right
\* after a page without the pager marker, and on success the whole batch was
\* sent; on Telnet the calls after the negotiation are the commands in batch
\* order, each once, then the sentinel once, then the one final read, then
\* the close, and on success all of them were made.
C13_SequentialCommands ==
    /\ IsSsh =>
         LET sent == Args(SelectSeq(trace, IsSshCommandSend)) IN
         /\ Len(sent) <= Len(params.commands)
         /\ sent = SubSeq(params.commands, 1, Len(sent))
         /\ \A k \in 4..Len(trace) :
              IsSshCommandSend(trace[k]) =>
                 IsPageRead(k - 1) /\ ~Contains(trace[k - 1].ret, more_prompt)
         /\ Succeeded => Len(sent) = Len(params.commands)
    /\ IsTelnet =>
         LET n    == Len(TelnetNegotiation)
             tail == SubSeq(trace, n + 1, Len(trace)) IN
         /\ Len(tail) <= Len(TelnetBatchCalls)
         /\ \A k \in 1..Len(tail) :
              /\ <<tail[k].op, tail[k].arg>> = TelnetBatchCalls[k]
              /\ k > 1 => tail[k - 1].exc = ""
         /\ Succeeded => Len(tail) = Len(TelnetBatchCalls)

\* C13 witness: a Telnet batch of two commands that ended in success.
C13_Witness ==
    /\ IsTelnet
    /\ Succeeded
    /\ Len(params.commands) = 2

\* C14 as stated: a Telnet invocation reports success only when the final
\* read saw the command prompt, and the content then is everything the
\* device had sent for the batch, cut neither at an earlier prompt nor at a
\* timeout.
C14_FinalReadSawPrompt ==
    (IsTelnet /\ Succeeded) =>
        /\ Contains(result.content, cli_prompt)
        /\ result.content = pending

\* C15 as stated: every invocation eventually ends with an outcome, whatever
\* the device does, also when every page it returns holds the pager marker.
C15_Terminates == <>(pc = "done")

\* A bare newline was written to the Telnet transport after call k.
TelnetContinuationAfter(k) ==
    \E j \in (k + 1)..Len(trace) :
        trace[j].op = "write" /\ trace[j].arg = newline

\* C16 as stated: on Telnet a read that stops at the pager marker is followed
\* by a bare-newline continuation, and the content of a success holds no
\* pager marker.
C16_TelnetPagerHandled ==
    (IsTelnet /\ Succeeded) =>
        /\ \A k \in 1..Len(trace) :
               (trace[k].op = "read_until" /\ trace[k].exc = ""
                    /\ Contains(trace[k].ret, more_prompt))
                   => TelnetContinuationAfter(k)
        /\ ~Contains(result.content, more_prompt)

\* C17 as stated: an invocation that has ended without success has ended in
\* a failure report with its message and its failure flag, never in an
\* exception that no handler turned into a report.
C17_FailureIsCategorized ==
    (pc = "done" /\ ~Succeeded) =>
        /\ result.kind = "fail_json"
        /\ result.failed

\* Once a result has been reported main() has ended: no read, write or
\* report can follow it.
NothingAfterReport ==
    result.kind # "none" => (pc = "done" /\ ~ENABLED Next)

\* C18 as stated: an invocation that has ended has emitted one report, a
\* success with its content or a failure, and nothing runs after a report.
C18_ExactlyOneOutcome ==
    /\ pc = "done" => (Succeeded /\ ~result.failed) \/ (Failed /\ result.failed)
    /\ NothingAfterReport

\* The same with the invocations left out that end in an exception no handler
\* catches.
C18_OneOutcomeUnlessTraceback ==
    /\ (pc = "done" /\ result.kind # "traceback") =>
           (Succeeded /\ ~result.failed) \/ (Failed /\ result.failed)
    /\ NothingAfterReport

====
